---------------------------- MODULE Spec2Model ----------------------------
(***************************************************************************)
(* A model of spiderfire's cancellable fetch pipeline:                     *)
(*   - the redirect-following dispatcher request_internal                  *)
(*     (modules/src/http/network.rs), with the request cloning of          *)
(*     runtime/src/globals/fetch/request/mod.rs;                           *)
(*   - AbortController / AbortSignal / SignalFuture                        *)
(*     (runtime/src/globals/abort.rs);                                     *)
(*   - the Request class: constructor and clone                            *)
(*     (runtime/src/globals/fetch/request/mod.rs).                         *)
(* Spec is the dispatcher and SpecFair the dispatcher run to completion;   *)
(* SpecSignal, SpecTimer, SpecInert and SpecWait are the abort signals;    *)
(* SpecRequest is the Request class.                                       *)
(***************************************************************************)
EXTENDS Integers, Sequences, FiniteSets, TLC

VARIABLES
    \* ---- dispatcher (request_internal) ----
    req,            \* the caller's Request (argument of request_internal)
    request,        \* the working clone `request` of line 24
    redirections,   \* the local counter of line 22
    locations,      \* the local vector of line 29
    response,       \* the response last received, or NoResponse
    inflight,       \* the request the transport is working on, or NoRequest
    sent,           \* every request handed to the transport, in order
    received,       \* how many responses the transport has delivered
    outcome,        \* the value request_internal returned, or NoOutcome
    pc,             \* "start" | "sending" | "received" | "done"
    \* ---- abort signals ----
    chan,           \* the watch channels: the controller's ("ctl"), the timer's ("tmr")
    signals,        \* the AbortSignal objects, by name; Absent until created
    futures,        \* the SignalFuture objects, by name; Absent until created
    terminate,      \* the timer's Arc<AtomicBool>
    task,           \* the timer's macrotask on the event loop's queue
    aborts,         \* the reasons of the controller's abort calls, in order
    staticArg,      \* the argument AbortSignal.abort was called with
    observed,       \* every non-empty reason read from a controller signal
    \* ---- Request class ----
    objects,        \* the Request objects, by name; Absent until created
    lastCall        \* the last operation on a Request: its arguments and result

fetchVars == <<req, request, redirections, locations, response, inflight, sent, received, outcome, pc>>
signalVars == <<chan, signals, futures, terminate, task, aborts, staticArg, observed>>
classVars == <<objects, lastCall>>
vars == <<req, request, redirections, locations, response, inflight, sent, received, outcome, pc,
          chan, signals, futures, terminate, task, aborts, staticArg, observed,
          objects, lastCall>>

(***************************************************************************)
(* Bounds of the model.                                                    *)
(***************************************************************************)
\* Number of distinct hosts the transport can redirect to.
NumHosts == 2
\* The transport picks redirect targets freely for this many hops; on later
\* hops it sends the dispatcher on to the next host in the ring.
FreeHops == 1

(***************************************************************************)
(* Values.                                                                 *)
(***************************************************************************)
\* The hop limit of the redirect loop.
MaxRedirects == 20

HostNames == <<"a.test", "b.test", "c.test", "d.test">>
Hosts == {HostNames[i] : i \in 1..NumHosts}
NextHost(h) ==
    LET i == CHOOSE k \in 1..NumHosts : HostNames[k] = h
    IN  HostNames[(i % NumHosts) + 1]

\* url::Url values the model uses: a host and a path.
Urls == [host : Hosts, path : {"/"}]

Methods == {"GET", "HEAD", "POST", "PUT"}
Redirection == {"Follow", "Error", "Manual"}
\* request bodies: Bytes, empty or not
Bodies == {<< >>, <<7>>}
\* response statuses the transport answers with
Statuses == {200, 300, 301, 302, 303, 304, 307, 308}

ContentHeaders == {"content-encoding", "content-language", "content-location", "content-type"}
\* header maps the caller may have set, as sets of <<name, value>>
CallerHeaders ==
    { {<<"accept", "*/*">>},
      {<<"accept", "*/*">>} \cup {<<n, "x">> : n \in ContentHeaders} }

NoResponse == [kind |-> "none"]
NoRequest == [kind |-> "none"]
NoOutcome == [kind |-> "none"]
NoBase == [kind |-> "nobase"]

\* Location header values a response can carry
LocMissing == [kind |-> "missing"]
LocNonAscii == [kind |-> "nonascii"]
LocUnparsable == [kind |-> "unparsable"]
LocRelative(p) == [kind |-> "relative", path |-> p]
LocAbsolute(u) == [kind |-> "absolute", url |-> u]


(***************************************************************************)
(* Pure helpers of the dispatcher.                                         *)
(***************************************************************************)
Last(s) == s[Len(s)]

\* Url::as_str / Url::from_str / Uri::from_str: a URL string is
\* <<scheme, host, path>>; a Url keeps host and path, a Uri keeps scheme,
\* authority and path.
UrlAsStr(u) == <<"http://", u.host, u.path>>
UrlFromStr(s) == [host |-> s[2], path |-> s[3]]
UriFromStr(s) == [scheme |-> "http", authority |-> s[2], path |-> s[3]]

\* StatusCode::is_redirection: the whole 3xx class.
IsRedirection(status) == status >= 300 /\ status < 400

TooManyRedirects_OffByOne(n) == n > MaxRedirects

TooManyRedirects_AtThirty(n) == n >= 30

\* the hop-limit test of the loop
TooManyRedirects(n) == n >= MaxRedirects

RedirectedWithBody_Allow307(status, body) ==
    status # 303 /\ status # 307 /\ body # << >>

\* the body test of the loop: a redirect other than 303 with a non-empty body
RedirectedWithBody(status, body) == status # 303 /\ body # << >>

\* ParseOptions::parse: without a base only an absolute URL parses.
OptionsParse(base, location) ==
    CASE location.kind = "absolute" -> [ok |-> TRUE, url |-> location.url]
      [] location.kind = "relative" /\ base # NoBase ->
            [ok |-> TRUE, url |-> [host |-> base.host, path |-> location.path]]
      [] OTHER -> [ok |-> FALSE]

\* Lines 45-50: to_str()? then the parse. `options.base_url(..)` returns a new
\* ParseOptions that is dropped, so `options` still has no base.
ParseLocation(base, location) ==
    IF location.kind = "nonascii"
    THEN [ok |-> FALSE]
    ELSE OptionsParse(NoBase, location)

ShouldDowngrade_Only303(status, method) ==
    status = 303 /\ method # "GET" /\ method # "HEAD"

ShouldDowngrade_AnyPost(status, method) ==
    \/ status # 303 /\ method = "POST"
    \/ status = 303 /\ method # "GET" /\ method # "HEAD"

\* the method/body rewriting condition
ShouldDowngrade(status, method) ==
    \/ (status = 301 \/ status = 302) /\ method = "POST"
    \/ status = 303 /\ method # "GET" /\ method # "HEAD"

RemoveHeader_Nothing(headers, name) == headers

\* HeaderMap::remove
RemoveHeader(headers, name) == {h \in headers : h[1] # name}

StripContentHeaders_KeepType(headers) ==
    {h \in headers : h[1] \notin (ContentHeaders \ {"content-type"})}

\* lines 62-66
StripContentHeaders(headers) == {h \in headers : h[1] \notin ContentHeaders}

\* add_host_header(headers, url, true): sets Host from the URL's host.
AddHostHeader(headers, url) == headers \cup {<<"host", url.host>>}

\* clone_request: method, uri and headers copied, the body always Body::empty()
CloneRequest(r) ==
    [method |-> r.method, uri |-> r.uri, headers |-> r.headers, body |-> << >>]

\* Request::clone: the hyper request through clone_request, url and locations
\* from the last location, unsafe_request true, reload_navigation and
\* history_navigation false, every other field copied
RequestClone(self) ==
    LET url == Last(self.locations)
    IN  [f \in DOMAIN self |->
            CASE f = "request" -> CloneRequest(self.request)
              [] f = "url" -> url
              [] f = "locations" -> <<url>>
              [] f = "unsafe_request" -> TRUE
              [] f \in {"reload_navigation", "history_navigation"} -> FALSE
              [] OTHER -> self[f]]

\* Lines 54-73: what one followed redirect does to `request`.
NormalizeForRedirect(r, status, url) ==
    LET down == ShouldDowngrade(status, r.request.method)
        method == IF down THEN "GET" ELSE r.request.method
        headers0 == IF down THEN StripContentHeaders(r.request.headers)
                    ELSE r.request.headers
        headers == AddHostHeader(RemoveHeader(headers0, "host"), url)
    IN  [r EXCEPT !.body = IF down THEN << >> ELSE r.body,
                  !.request = [method |-> method,
                               uri |-> UriFromStr(UrlAsStr(url)),
                               headers |-> headers,
                               body |-> IF down THEN << >> ELSE r.request.body]]

\* Response::new(response, redirections, locations)
NewResponse(resp, n, locs) ==
    [kind |-> "response", status |-> resp.status, location |-> resp.location,
     redirections |-> n, locations |-> locs]

Failure(e) == [kind |-> "error", error |-> e]

PushLocation_Overwrite(locs, url) == [locs EXCEPT ![Len(locs)] = url]

PushLocation_Prepend(locs, url) == <<url>> \o locs

\* locations.push(url)
PushLocation(locs, url) == Append(locs, url)

(***************************************************************************)
(* The requests a caller can hand to request_internal.                     *)
(***************************************************************************)
CallerRequests ==
    { [request |-> [method |-> m,
                    uri |-> UriFromStr(s),
                    headers |-> AddHostHeader(h, UrlFromStr(s)),
                    body |-> << >>],
       body |-> b,
       body_used |-> FALSE,
       url |-> UrlFromStr(s),
       locations |-> <<UrlFromStr(s)>>,
       redirection |-> p] :
      m \in Methods, s \in {UrlAsStr([host |-> HostNames[1], path |-> "/"])},
      h \in CallerHeaders, b \in Bodies, p \in Redirection }

(***************************************************************************)
(* The transport (hyper client): answers the request in flight.            *)
(***************************************************************************)
RedirectTargets ==
    IF Len(sent) <= FreeHops
    THEN Urls
    ELSE {[host |-> NextHost(inflight.uri.authority), path |-> "/"]}

LocationValues ==
    {LocMissing, LocNonAscii, LocUnparsable, LocRelative("/r")}
        \cup {LocAbsolute(u) : u \in RedirectTargets}

(***************************************************************************)
(* request_internal, one action per step.                                  *)
(***************************************************************************)
\* Lines 21-28: clone the request, give both their bodies, send the first.
SendInitial ==
    /\ pc = "start"
    /\ LET c == RequestClone(req)
           first == [req.request EXCEPT !.body = req.body]
       IN  /\ request' = [c EXCEPT !.request.body = c.body]
           /\ inflight' = first
           /\ sent' = <<first>>
    /\ redirections' = 0
    /\ pc' = "sending"
    /\ UNCHANGED <<req, locations, response, received, outcome, signalVars, classVars>>

\* client.request(..).await returns a response (lines 28-29 and 76).
TransportRespond ==
    /\ pc = "sending"
    /\ \E status \in Statuses, location \in LocationValues :
          response' = [kind |-> "response", status |-> status, location |-> location]
    /\ locations' = IF Len(sent) = 1 THEN <<request.url>> ELSE locations
    /\ inflight' = NoRequest
    /\ received' = received + 1
    /\ pc' = "received"
    /\ UNCHANGED <<req, request, redirections, sent, outcome, signalVars, classVars>>

TransportFail_Retry ==
    /\ pc = "sending"
    /\ sent' = Append(sent, inflight)
    /\ UNCHANGED <<req, request, redirections, locations, response, inflight, received,
                   outcome, pc, signalVars, classVars>>

\* client.request(..).await? fails: the error is returned.
TransportFail ==
    /\ pc = "sending"
    /\ outcome' = Failure("TransportError")
    /\ inflight' = NoRequest
    /\ pc' = "done"
    /\ UNCHANGED <<req, request, redirections, locations, response, sent, received, signalVars, classVars>>

Finish(result) ==
    /\ outcome' = result
    /\ pc' = "done"
    /\ UNCHANGED <<req, request, redirections, locations, response, inflight, sent, received, signalVars, classVars>>

\* Line 86: the loop condition is false.
ReturnFinal ==
    /\ pc = "received"
    /\ ~IsRedirection(response.status)
    /\ Finish(NewResponse(response, redirections, locations))

\* Lines 32-34.
FailTooMany ==
    /\ pc = "received"
    /\ IsRedirection(response.status)
    /\ TooManyRedirects(redirections)
    /\ Finish(Failure("TooManyRedirects"))

\* Lines 35-38.
FailWithBody ==
    /\ pc = "received"
    /\ IsRedirection(response.status)
    /\ ~TooManyRedirects(redirections)
    /\ RedirectedWithBody(response.status, request.body)
    /\ Finish(Failure("RedirectWithBody"))

\* the loop body reaches `match req.redirection`
AtMatch ==
    /\ pc = "received"
    /\ IsRedirection(response.status)
    /\ ~TooManyRedirects(redirections)
    /\ ~RedirectedWithBody(response.status, request.body)

\* Line 81.
FailPolicy ==
    /\ AtMatch
    /\ req.redirection = "Error"
    /\ Finish(Failure("RedirectPolicyViolation"))

\* Line 82.
ReturnManual ==
    /\ AtMatch
    /\ req.redirection = "Manual"
    /\ Finish(NewResponse(response, redirections, locations))

\* Lines 77-79: Follow, no Location header.
ReturnNoLocation ==
    /\ AtMatch
    /\ req.redirection = "Follow"
    /\ response.location.kind = "missing"
    /\ Finish(NewResponse(response, redirections, locations))

\* Lines 45-50: Follow, the Location value fails to_str or the parse.
FailLocation ==
    /\ AtMatch
    /\ req.redirection = "Follow"
    /\ response.location.kind # "missing"
    /\ ~ParseLocation(request.url, response.location).ok
    /\ Finish(Failure("MalformedLocation"))

\* Lines 52-76: follow the redirect and send the next hop.
FollowRedirect ==
    /\ AtMatch
    /\ req.redirection = "Follow"
    /\ response.location.kind # "missing"
    /\ ParseLocation(request.url, response.location).ok
    /\ LET url == ParseLocation(request.url, response.location).url
           r == NormalizeForRedirect(request, response.status, url)
           hop == CloneRequest(r.request)
       IN  /\ redirections' = redirections + 1
           /\ request' = r
           /\ locations' = PushLocation(locations, url)
           /\ inflight' = hop
           /\ sent' = Append(sent, hop)
    /\ pc' = "sending"
    /\ UNCHANGED <<req, response, received, outcome, signalVars, classVars>>

(***************************************************************************)
(* Abort signals: values.                                                  *)
(***************************************************************************)
\* Most abort calls one run makes on the controller.
MaxAborts == 2

Absent == [kind |-> "absent"]

\* Option<JSVal>
None == [kind |-> "none"]
Some(v) == [kind |-> "some", val |-> v]

\* reasons (JSVal): a value the script passed, or an Error object
UserReason(k) == [name |-> "value", arg |-> k]
AbortError == [name |-> "AbortError", arg |-> 0]
TimeoutError(time) == [name |-> "Timeout Error", arg |-> time]
UserReasons == {UserReason(1)}
AbortArgs == {None} \cup {Some(r) : r \in UserReasons}
Durations == {0, 100}

\* the names of the AbortSignal objects a run can create: two handles of the
\* controller, the static abort signal, the timeout signal, the default one
Handles == {"h1", "h2"}
SignalIds == Handles \cup {"s", "t", "d"}
\* the names of the SignalFuture objects a run can create
Waiters == {"w1", "w2"}

\* enum Signal
SignalNone == [kind |-> "None"]
SignalAbort(r) == [kind |-> "Abort", reason |-> r]
SignalReceiver(seen) == [kind |-> "Receiver", chan |-> "ctl", seen |-> seen]
SignalTimeout(seen) == [kind |-> "Timeout", chan |-> "tmr", seen |-> seen]

\* Poll<JSVal>
Pending == [kind |-> "Pending"]
Ready(r) == [kind |-> "Ready", val |-> r]
NotPolled == [kind |-> "notpolled"]

\* tokio::sync::watch::channel(None)
NewChannel == [value |-> None, version |-> 0, closed |-> FALSE]

(***************************************************************************)
(* Abort signals: helpers.                                                 *)
(***************************************************************************)
\* reason.unwrap_or_else(NullValue), replaced by a new AbortError when none
ReasonOrDefault(arg) == IF arg = None THEN AbortError ELSE arg.val

\* Sender::send_replace: stores the value and marks the channel changed
SendReplace(c, v) == [c EXCEPT !.value = v, !.version = c.version + 1]

\* AbortSignal::get_reason
GetReason(signal) ==
    CASE signal.kind = "None" -> None
      [] signal.kind = "Abort" -> Some(signal.reason)
      [] signal.kind \in {"Receiver", "Timeout"} -> chan[signal.chan].value

\* AbortSignal::get_aborted
GetAborted(signal) == GetReason(signal) # None

SignalFuturePoll_AbortPending(inner) ==
    IF inner.kind \in {"None", "Abort"}
    THEN [result |-> Pending, inner |-> inner, woken |-> FALSE]
    ELSE [result |-> IF chan[inner.chan].value # None
                     THEN Ready(chan[inner.chan].value.val) ELSE Pending,
          inner |-> inner, woken |-> TRUE]

SignalFuturePoll_NoWake(inner) ==
    CASE inner.kind = "None" -> [result |-> Pending, inner |-> inner, woken |-> FALSE]
      [] inner.kind = "Abort" -> [result |-> Ready(inner.reason), inner |-> inner, woken |-> FALSE]
      [] OTHER ->
            IF chan[inner.chan].value # None
            THEN [result |-> Ready(chan[inner.chan].value.val), inner |-> inner, woken |-> FALSE]
            ELSE [result |-> Pending,
                  inner |-> [inner EXCEPT !.seen = chan[inner.chan].version],
                  woken |-> FALSE]

SignalFuturePoll_NoneReady(inner) ==
    IF inner.kind = "None"
    THEN [result |-> Ready(AbortError), inner |-> inner, woken |-> FALSE]
    ELSE [result |-> Pending, inner |-> inner, woken |-> TRUE]

\* SignalFuture::poll: the result, the receiver's new state, and whether the
\* waker was woken (so that the future is polled again).
SignalFuturePoll(inner) ==
    CASE inner.kind = "None" -> [result |-> Pending, inner |-> inner, woken |-> FALSE]
      [] inner.kind = "Abort" -> [result |-> Ready(inner.reason), inner |-> inner, woken |-> FALSE]
      [] inner.kind \in {"Receiver", "Timeout"} ->
            LET c == chan[inner.chan]
            IN  IF c.value # None
                THEN [result |-> Ready(c.value.val), inner |-> inner, woken |-> FALSE]
                ELSE \* receiver.changed(): Ready when a new version is there or
                     \* the sender is gone; the cell is read again, and is empty
                     IF inner.seen # c.version
                     THEN [result |-> Pending,
                           inner |-> [inner EXCEPT !.seen = c.version],
                           woken |-> TRUE]
                     ELSE [result |-> Pending, inner |-> inner, woken |-> TRUE]

DropStoresTerminate_Never(inner, flag) == flag

\* SignalFuture::drop: the new value of the termination flag
DropStoresTerminate(inner, flag) ==
    IF inner.kind = "Timeout" /\ chan[inner.chan].value = None
    THEN TRUE
    ELSE flag

(***************************************************************************)
(* Abort signals: one action per operation.                                *)
(***************************************************************************)
\* AbortController::get_signal
GetSignal(h) ==
    /\ signals[h] = Absent
    /\ signals' = [signals EXCEPT ![h] = SignalReceiver(chan["ctl"].version)]
    /\ UNCHANGED <<chan, futures, terminate, task, aborts, staticArg, observed, fetchVars, classVars>>

\* AbortController::abort
ControllerAbort(arg) ==
    /\ Len(aborts) < MaxAborts
    /\ chan' = [chan EXCEPT !["ctl"] = SendReplace(chan["ctl"], Some(ReasonOrDefault(arg)))]
    /\ aborts' = Append(aborts, ReasonOrDefault(arg))
    /\ UNCHANGED <<signals, futures, terminate, task, staticArg, observed, fetchVars, classVars>>

\* AbortSignal::abort (static)
StaticAbort(arg) ==
    /\ signals["s"] = Absent
    /\ signals' = [signals EXCEPT !["s"] = SignalAbort(ReasonOrDefault(arg))]
    /\ staticArg' = [kind |-> "called", arg |-> arg]
    /\ UNCHANGED <<chan, futures, terminate, task, aborts, observed, fetchVars, classVars>>

\* AbortSignal::timeout: a new channel and flag; the callback, which owns the
\* sender, is queued when the event loop has a macrotask queue and is dropped
\* otherwise.
Timeout(time, queued) ==
    /\ signals["t"] = Absent
    /\ chan' = [chan EXCEPT !["tmr"] = [NewChannel EXCEPT !.closed = ~queued]]
    /\ terminate' = FALSE
    /\ task' = [state |-> IF queued THEN "queued" ELSE "dropped", time |-> time]
    /\ signals' = [signals EXCEPT !["t"] = SignalTimeout(0)]
    /\ UNCHANGED <<futures, aborts, staticArg, observed, fetchVars, classVars>>

\* the callback of AbortSignal::timeout
TimeoutCallback(time) ==
    chan' = [chan EXCEPT !["tmr"] =
                [SendReplace(chan["tmr"], Some(TimeoutError(time))) EXCEPT !.closed = TRUE]]

\* The event loop takes the macrotask when its duration has elapsed: with the
\* termination flag set the callback is dropped unrun, otherwise it runs.
RunSignalMacrotask ==
    /\ task.state = "queued"
    /\ IF terminate
       THEN /\ chan' = [chan EXCEPT !["tmr"].closed = TRUE]
            /\ task' = [task EXCEPT !.state = "skipped"]
       ELSE /\ TimeoutCallback(task.time)
            /\ task' = [task EXCEPT !.state = "ran"]
    /\ UNCHANGED <<signals, futures, terminate, aborts, staticArg, observed, fetchVars, classVars>>

\* AbortSignal::poll: a SignalFuture over a clone of the signal
Poll(i, w) ==
    /\ signals[i] # Absent
    /\ futures[w] = Absent
    /\ futures' = [futures EXCEPT ![w] =
          [kind |-> "future", of |-> i, inner |-> signals[i], state |-> "live",
           last |-> NotPolled, woken |-> TRUE, emptyAtDrop |-> FALSE]]
    /\ UNCHANGED <<chan, signals, terminate, task, aborts, staticArg, observed, fetchVars, classVars>>

\* the executor polls a future that is new or was woken
FuturePoll(w) ==
    /\ futures[w] # Absent
    /\ futures[w].state = "live"
    /\ futures[w].woken
    /\ futures[w].last.kind # "Ready"
    /\ LET p == SignalFuturePoll(futures[w].inner)
       IN  futures' = [futures EXCEPT ![w].inner = p.inner,
                                      ![w].last = p.result,
                                      ![w].woken = p.woken]
    /\ UNCHANGED <<chan, signals, terminate, task, aborts, staticArg, observed, fetchVars, classVars>>

\* the future is dropped (SignalFuture::drop)
FutureDrop(w) ==
    /\ futures[w] # Absent
    /\ futures[w].state = "live"
    /\ terminate' = DropStoresTerminate(futures[w].inner, terminate)
    /\ futures' = [futures EXCEPT
          ![w].state = "dropped",
          ![w].emptyAtDrop = (GetReason(futures[w].inner) = None)]
    /\ UNCHANGED <<chan, signals, task, aborts, staticArg, observed, fetchVars, classVars>>

\* a script reads signal.reason on a handle of the controller
ReadReason(h) ==
    /\ signals[h] # Absent
    /\ GetReason(signals[h]) # None
    /\ observed' = observed \cup {GetReason(signals[h]).val}
    /\ UNCHANGED <<chan, signals, futures, terminate, task, aborts, staticArg, fetchVars, classVars>>

\* the state after `new AbortController()`, with the default (inert) signal
SignalInit ==
    /\ chan = [c \in {"ctl", "tmr"} |-> NewChannel]
    /\ signals = [i \in SignalIds |-> IF i = "d" THEN SignalNone ELSE Absent]
    /\ futures = [w \in Waiters |-> Absent]
    /\ terminate = FALSE
    /\ task = [state |-> "none", time |-> 0]
    /\ aborts = << >>
    /\ staticArg = [kind |-> "notcalled"]
    /\ observed = {}

(***************************************************************************)
(* The Request class (runtime/src/globals/fetch/request/mod.rs): values.   *)
(***************************************************************************)
\* the names of the Request objects a run can create
ObjIds == {"r1", "r2"}

\* RequestMode, RequestCache
Modes == {"SameOrigin", "Cors", "NoCors", "Navigate"}
Caches == {"Default", "OnlyIfCached"}

\* the method strings a script passes in the init dictionary
MethodStrings == {"get", "POST", "PUT", "TRACE"}

\* the URL strings a script passes: a plain one, one with a user name
PlainUrl == <<"http://", HostNames[1], "/">>
UserUrl == <<"http://user@", HostNames[1], "/">>
UrlUsername(s) == IF s[1] = "http://user@" THEN "user" ELSE ""

\* FetchBody: the bytes and the content type they came with
EmptyBody == [bytes |-> << >>, kind |-> None]
TextBody == [bytes |-> <<7>>, kind |-> Some("text/plain")]

\* the members of the init dictionary other than method, mode and cache: all
\* absent, or all given
NoExtras ==
    [credentials |-> None, redirect |-> None, integrity |-> None,
     keepalive |-> None, signal |-> None, headers |-> None, body |-> None]
AllExtras ==
    [credentials |-> Some("Include"), redirect |-> Some("Manual"),
     integrity |-> Some("sha256-0"), keepalive |-> Some(TRUE),
     signal |-> Some(SignalAbort(AbortError)),
     headers |-> Some({<<"content-type", "x">>}), body |-> Some(TextBody)]

\* RequestBuilderInit { method, init }
RequestInits ==
    { [window |-> None, method |-> m, mode |-> md, cache |-> Some(c), extras |-> x] :
      m \in {None} \cup {Some(s) : s \in MethodStrings},
      md \in {None} \cup {Some(k) : k \in Modes},
      c \in Caches,
      x \in {NoExtras, AllExtras} }

InfoString(s) == [kind |-> "String", url |-> s]
InfoRequest(r) == [kind |-> "Request", request |-> r]

TypeError(m) == [ok |-> FALSE, kind |-> "Type", message |-> m]
Ok(r) == [ok |-> TRUE, request |-> r]

(***************************************************************************)
(* The Request class: helpers.                                             *)
(***************************************************************************)
\* str::make_ascii_uppercase
MakeAsciiUppercase(s) == IF s = "get" THEN "GET" ELSE s

\* lines 79-114: the Request made from a URL string; the values the enums and
\* the signal default to are never read before they are replaced or copied
RequestFromString(url) ==
    [request |-> [method |-> "GET", uri |-> UriFromStr(url), headers |-> {}, body |-> << >>],
     body |-> EmptyBody,
     body_used |-> FALSE,
     url |-> UrlFromStr(url),
     locations |-> <<UrlFromStr(url)>>,
     referrer |-> "default",
     referrer_policy |-> "default",
     mode |-> "default",
     credentials |-> "default",
     cache |-> "default",
     redirect |-> "default",
     integrity |-> "",
     unsafe_request |-> FALSE,
     keepalive |-> FALSE,
     reload_navigation |-> FALSE,
     history_navigation |-> FALSE,
     client_window |-> TRUE,
     signal |-> SignalNone]

OrElse(option, value) == IF option = None THEN value ELSE option.val

NoCorsRejects_Intended(method) == method \notin {"GET", "HEAD", "POST"}

\* line 193: method != GET || method != HEAD || method != POST
NoCorsRejects(method) == method # "GET" \/ method # "HEAD" \/ method # "POST"

\* lines 184-213: the checks on cache and mode, then the headers and the body
ConstructorFinish(r, headers, body) ==
    IF r.cache = "OnlyIfCached" /\ r.mode # "SameOrigin"
    THEN TypeError("Request cache mode 'only-if-cached' can only be used with request mode 'same-origin'")
    ELSE IF r.mode = "NoCors" /\ NoCorsRejects(r.request.method)
    THEN TypeError("Invalid request method.")
    ELSE LET h1 == IF headers # None THEN headers.val ELSE r.request.headers
             h2 == IF /\ body # None
                      /\ body.val.kind # None
                      /\ \E h \in h1 : h[1] = "content-type"
                   THEN h1 \cup {<<"content-type", body.val.kind.val>>}
                   ELSE h1
         IN  Ok([r EXCEPT !.request.headers = h2,
                          !.body = IF body # None THEN body.val ELSE @])

\* lines 121-182: the members of the init dictionary
ConstructorInit(r0, i, fallback_cors) ==
    LET r1 == [r0 EXCEPT !.client_window = IF i.window # None THEN FALSE ELSE @,
                         !.mode = IF @ = "Navigate" THEN "SameOrigin" ELSE @,
                         !.reload_navigation = FALSE,
                         !.history_navigation = FALSE]
        mode == IF i.mode # None THEN i.mode
                ELSE IF fallback_cors THEN Some("Cors") ELSE None
        r2 == [r1 EXCEPT !.mode = OrElse(mode, @),
                         !.credentials = OrElse(i.extras.credentials, @),
                         !.cache = OrElse(i.cache, @),
                         !.redirect = OrElse(i.extras.redirect, @),
                         !.integrity = OrElse(i.extras.integrity, @),
                         !.keepalive = OrElse(i.extras.keepalive, @),
                         !.signal = OrElse(i.extras.signal, @)]
        method == IF i.method # None THEN MakeAsciiUppercase(i.method.val)
                  ELSE r2.request.method
    IN  IF i.window # None /\ i.window.val # "null"
        THEN TypeError("Received non-null window type")
        ELSE IF mode # None /\ mode.val = "Navigate"
        THEN TypeError("Received 'navigate' mode")
        ELSE IF i.method # None /\ method \in {"CONNECT", "TRACE"}
        THEN TypeError("Received invalid request method")
        ELSE ConstructorFinish([r2 EXCEPT !.request.method = method],
                               i.extras.headers, i.extras.body)

\* Request::constructor
Constructor(info, init) ==
    IF info.kind = "String" /\ UrlUsername(info.url) # ""
    THEN TypeError("Received URL with embedded credentials")
    ELSE LET r0 == IF info.kind = "Request"
                   THEN RequestClone(info.request)
                   ELSE RequestFromString(info.url)
         IN  IF init = None
             THEN ConstructorFinish(r0, None, None)
             ELSE ConstructorInit(r0, init.val, info.kind = "String")

(***************************************************************************)
(* The Request class: one action per operation.                            *)
(***************************************************************************)
NoCall == [op |-> "none"]

\* the constructor threw: the script that called it has ended
Thrown == lastCall.op = "constructor" /\ ~lastCall.result.ok

\* the name the next Request object gets
NextObj == IF objects["r1"] = Absent THEN "r1" ELSE "r2"

\* the arguments of `new Request(info, init)`: a URL string with an init
\* dictionary, or an existing Request with or without one; every init
\* dictionary gives the cache mode
ConstructorArgs ==
    {<<InfoString(s), Some(i)>> : s \in {PlainUrl, UserUrl}, i \in RequestInits}
    \cup {<<InfoRequest(RequestClone(objects[p])), i>> :
             p \in {q \in ObjIds : objects[q] # Absent},
             i \in {None} \cup {Some(x) : x \in RequestInits}}

\* new Request(info, init)
Construct(args) ==
    /\ ~Thrown
    /\ objects[NextObj] = Absent
    /\ LET result == Constructor(args[1], args[2])
       IN  /\ objects' = IF result.ok
                         THEN [objects EXCEPT ![NextObj] = result.request]
                         ELSE objects
           /\ lastCall' = [op |-> "constructor", info |-> args[1], init |-> args[2],
                           result |-> result]
    /\ UNCHANGED <<fetchVars, signalVars>>

\* FromValue for Request (lines 256-269): a Request argument is cloned
RequestFromValue(p) ==
    /\ ~Thrown
    /\ objects[p] # Absent
    /\ objects[NextObj] = Absent
    /\ objects' = [objects EXCEPT ![NextObj] = RequestClone(objects[p])]
    /\ lastCall' = [op |-> "clone", source |-> objects[p],
                    result |-> RequestClone(objects[p])]
    /\ UNCHANGED <<fetchVars, signalVars>>

\* the body of a Request is read (text(), json(), a send): it is marked used
ConsumeBody(p) ==
    /\ ~Thrown
    /\ objects[p] # Absent
    /\ ~objects[p].body_used
    /\ objects' = [objects EXCEPT ![p].body_used = TRUE]
    /\ lastCall' = [op |-> "consume"]
    /\ UNCHANGED <<fetchVars, signalVars>>

ClassInit ==
    /\ objects = [o \in ObjIds |-> Absent]
    /\ lastCall = NoCall

HasCallerContentHeader(headers) == \E h \in headers : h[1] = "content-type"

(***************************************************************************)
(* The dispatcher's specification.                                         *)
(***************************************************************************)
Init ==
    /\ req \in CallerRequests
    /\ request = NoRequest
    /\ redirections = 0
    /\ locations = << >>
    /\ response = NoResponse
    /\ inflight = NoRequest
    /\ sent = << >>
    /\ received = 0
    /\ outcome = NoOutcome
    /\ pc = "start"
    /\ SignalInit
    /\ ClassInit

Next ==
    \/ SendInitial
    \/ TransportRespond
    \/ TransportFail
    \/ ReturnFinal
    \/ FailTooMany
    \/ FailWithBody
    \/ FailPolicy
    \/ ReturnManual
    \/ ReturnNoLocation
    \/ FailLocation
    \/ FollowRedirect

Spec == Init /\ [][Next]_vars

\* The dispatcher run to completion: the future returned by request_internal is
\* awaited, so a step that can be taken is taken, the transport's answer
\* included.
\* The caller's headers take no part in any test of the loop, and PUT differs
\* from POST only in not being rewritten on 301 and 302: this specification
\* gives the caller the larger header map only, and the methods GET, HEAD and
\* POST.
InitFair ==
    /\ Init
    /\ HasCallerContentHeader(req.request.headers)
    /\ req.request.method \in {"GET", "HEAD", "POST"}

SpecFair == InitFair /\ [][Next]_vars /\ WF_vars(Next)

(***************************************************************************)
(* The abort signals' specification.                                       *)
(***************************************************************************)
FetchIdle ==
    /\ req = CHOOSE r \in CallerRequests : TRUE
    /\ request = NoRequest
    /\ redirections = 0
    /\ locations = << >>
    /\ response = NoResponse
    /\ inflight = NoRequest
    /\ sent = << >>
    /\ received = 0
    /\ outcome = NoOutcome
    /\ pc = "start"

InitSignal == SignalInit /\ FetchIdle /\ ClassInit

NextSignal ==
    \/ \E h \in Handles : GetSignal(h)
    \/ \E arg \in AbortArgs : ControllerAbort(arg)
    \/ \E arg \in AbortArgs : StaticAbort(arg)
    \/ \E i \in SignalIds, w \in Waiters : Poll(i, w)
    \/ \E w \in Waiters : FuturePoll(w)
    \/ \E w \in Waiters : FutureDrop(w)
    \/ \E h \in Handles : ReadReason(h)

\* the controller, its handles, the static abort signal and the default signal
SpecSignal == InitSignal /\ [][NextSignal]_vars

NextTimer ==
    \/ \E time \in Durations, queued \in BOOLEAN : Timeout(time, queued)
    \/ RunSignalMacrotask
    \/ \E i \in SignalIds, w \in Waiters : Poll(i, w)
    \/ \E w \in Waiters : FuturePoll(w)
    \/ \E w \in Waiters : FutureDrop(w)

\* the timeout signal, its macrotask and the default signal
SpecTimer == InitSignal /\ [][NextTimer]_vars

NextInert ==
    \/ \E arg \in AbortArgs : ControllerAbort(arg)
    \/ \E arg \in AbortArgs : StaticAbort(arg)
    \/ \E time \in Durations, queued \in BOOLEAN : Timeout(time, queued)
    \/ RunSignalMacrotask
    \/ \E i \in {"d", "t"}, w \in Waiters : Poll(i, w)
    \/ \E w \in Waiters : FuturePoll(w)
    \/ \E w \in Waiters : FutureDrop(w)

\* the default signal and its wait futures, while the controller aborts, the
\* static abort signal is made and the timeout signal runs its course
SpecInert == InitSignal /\ [][NextInert]_vars

NextRequest ==
    \/ \E args \in ConstructorArgs : Construct(args)
    \/ \E p \in ObjIds : RequestFromValue(p)
    \/ \E p \in ObjIds : ConsumeBody(p)

\* the Request class: construction, cloning, reading the body
SpecRequest == InitSignal /\ [][NextRequest]_vars

NextWait ==
    \/ \E h \in Handles : GetSignal(h)
    \/ \E arg \in AbortArgs : ControllerAbort(arg)
    \/ \E h \in Handles, w \in Waiters : Poll(h, w)
    \/ \E w \in Waiters : FuturePoll(w)
    \/ \E w \in Waiters : FutureDrop(w)

\* the controller, its handles and their wait futures under fair polling: the
\* executor polls again every future that is new or was woken
SpecWait ==
    InitSignal /\ [][NextWait]_vars /\ \A w \in Waiters : WF_vars(FuturePoll(w))

(***************************************************************************)
(* Claims about the dispatcher (checked under Spec).                       *)
(***************************************************************************)
\* the redirection codes of the specification's glossary
RedirectionCodes == {301, 302, 303, 307, 308}

\* the response just received answers the caller's own request
FirstResponse == received = 1 /\ Len(sent) = 1

HasContentHeader(headers) == \E h \in headers : h[1] \in ContentHeaders

\* C2: under Follow, when the 21st response in a row is a redirection (the 20
\* before it were followed), the dispatch ends with TooManyRedirects; when it
\* is a 200, the dispatch returns it with 21 locations and a redirect count
\* of 20.
C2_HopLimit ==
    (pc = "done" /\ req.redirection = "Follow" /\ received = 21) =>
        /\ (response.status \in RedirectionCodes /\ response.location.kind = "absolute")
              => (outcome = Failure("TooManyRedirects") /\ Len(sent) = 21)
        /\ response.status = 200
              => /\ outcome.kind = "response"
                 /\ outcome.status = 200
                 /\ Len(outcome.locations) = 21
                 /\ outcome.redirections = 20

C2_Witness ==
    /\ pc = "done"
    /\ req.redirection = "Follow"
    /\ req.body = << >>
    /\ received = 21
    /\ response.status \in RedirectionCodes
    /\ response.location.kind = "absolute"
    /\ outcome = Failure("TooManyRedirects")

\* C3: under Follow, when h < 20 redirects were followed and the answer to
\* the last request has a non-redirect status, that answer is returned, and
\* the returned response has h+1 locations, the first the original request
\* URI, the last the URI of the final request sent, and a redirect count of h
\* (h is counted from the requests sent after the first).
C3_LocationsOfFinalResponse ==
    (/\ pc = "done"
     /\ req.redirection = "Follow"
     /\ received = Len(sent)
     /\ Len(sent) - 1 < 20
     /\ response.status \notin RedirectionCodes)
    => /\ ~IsRedirection(response.status) => outcome.kind = "response"
       /\ outcome.kind = "response" =>
            /\ outcome.status = response.status
            /\ Len(outcome.locations) = Len(sent)
            /\ UriFromStr(UrlAsStr(outcome.locations[1])) = req.request.uri
            /\ UriFromStr(UrlAsStr(Last(outcome.locations))) = Last(sent).uri
            /\ outcome.redirections = Len(sent) - 1

C3_Witness ==
    /\ pc = "done"
    /\ req.redirection = "Follow"
    /\ outcome.kind = "response"
    /\ outcome.status = 200
    /\ Len(sent) = 3
    /\ outcome.redirections = 2
    /\ Len(outcome.locations) = 3
    /\ outcome.locations[2] # outcome.locations[1]
    /\ outcome.locations[3] = outcome.locations[1]

\* C4 (as claimed): with policy Error, a redirection status on the first
\* response ends the dispatch with RedirectPolicyViolation, whatever the
\* method and body.
C4_PolicyErrorFails ==
    (/\ pc = "done"
     /\ req.redirection = "Error"
     /\ FirstResponse
     /\ response.status \in RedirectionCodes)
    => outcome = Failure("RedirectPolicyViolation")

\* the caller's POST request was answered by `status` with an absolute Location
PostAnsweredBy(status) ==
    /\ pc = "received"
    /\ FirstResponse
    /\ req.redirection = "Follow"
    /\ req.request.method = "POST"
    /\ response.status = status
    /\ response.location.kind = "absolute"

HopIsGetWithoutContent ==
    /\ pc' = "sending"
    /\ Len(sent') = 2
    /\ inflight' = sent'[2]
    /\ inflight'.method = "GET"
    /\ inflight'.body = << >>
    /\ ~HasContentHeader(inflight'.headers)

EndsWithBodyError ==
    /\ pc' = "done"
    /\ outcome' = Failure("RedirectWithBody")
    /\ sent' = sent
    /\ inflight' = NoRequest

\* C5 (as claimed): a POST request, with or without a body, answered by 302
\* with a valid Location under Follow is followed by a hop request with
\* method GET, an empty body and none of the four content headers.
C5_Original == [][PostAnsweredBy(302) => HopIsGetWithoutContent]_vars

\* C5 (amended): a POST request with an empty body answered by 302 with a
\* valid Location under Follow is followed by a hop request with method GET,
\* an empty body and none of the four content headers; with a non-empty body
\* the dispatch ends with RedirectWithBody and no hop is sent.
C5_PostFoundBecomesGet ==
    [][PostAnsweredBy(302) =>
          IF req.body = << >> THEN HopIsGetWithoutContent ELSE EndsWithBodyError]_vars

C5_Witness ==
    /\ pc = "sending"
    /\ Len(sent) = 2
    /\ received = 1
    /\ req.redirection = "Follow"
    /\ sent[1].method = "POST"
    /\ HasContentHeader(sent[1].headers)
    /\ response.status = 302
    /\ inflight.method = "GET"
    /\ ~HasContentHeader(inflight.headers)

HopIsPostWithBody ==
    /\ pc' = "sending"
    /\ Len(sent') = 2
    /\ inflight' = sent'[2]
    /\ inflight'.method = "POST"
    /\ inflight'.body = req.body

\* C6 (as claimed): a POST request answered by 307 with a valid Location under
\* Follow is followed by a hop request with method POST and the original body
\* bytes, also when that body is non-empty.
C6_Original == [][PostAnsweredBy(307) => HopIsPostWithBody]_vars

\* C6 (amended): a POST request with an empty body answered by 307 with a
\* valid Location under Follow is followed by a hop request with method POST
\* and the same (empty) body; with a non-empty body the dispatch ends with
\* RedirectWithBody and no hop is sent.
C6_PostTemporaryStaysPost ==
    [][PostAnsweredBy(307) =>
          IF req.body = << >> THEN HopIsPostWithBody ELSE EndsWithBodyError]_vars

C6_Witness ==
    /\ pc = "sending"
    /\ Len(sent) = 2
    /\ received = 1
    /\ req.redirection = "Follow"
    /\ sent[1].method = "POST"
    /\ response.status = 307
    /\ inflight.method = "POST"
    /\ inflight.body = sent[1].body

\* a redirection other than 303 arrived while the request's body is non-empty
BodyRedirected ==
    /\ pc = "received"
    /\ request.body # << >>
    /\ response.status \in RedirectionCodes
    /\ response.status # 303

\* a hop is sent while the request's body is non-empty
HopWithBody ==
    /\ pc = "received"
    /\ request.body # << >>
    /\ Len(sent') = Len(sent) + 1

\* C7 (as claimed): while the request's body is non-empty, a redirection with
\* a status other than 303 ends the dispatch with RedirectWithBody and no hop
\* is sent; only a 303 produces a next hop.
C7_Original ==
    [][/\ BodyRedirected => EndsWithBodyError
       /\ HopWithBody => response.status = 303]_vars

\* C7 (amended): the same while fewer than 20 redirects have been followed;
\* once 20 have been followed the dispatch ends with TooManyRedirects
\* instead, and still no hop is sent.
C7_BodyBlocksRedirect ==
    [][/\ BodyRedirected =>
             IF redirections < 20
             THEN EndsWithBodyError
             ELSE /\ pc' = "done"
                  /\ outcome' = Failure("TooManyRedirects")
                  /\ sent' = sent
       /\ HopWithBody => response.status = 303]_vars

C7_Witness ==
    /\ pc = "done"
    /\ received = 2
    /\ request.body # << >>
    /\ response.status = 301
    /\ outcome = Failure("RedirectWithBody")
    /\ Len(sent) = 2

\* C11 (as claimed): with policy Manual, whatever the method and body, the
\* first response ends the dispatch and no second request is sent; when its
\* status is a redirection code the dispatch returns that response with a
\* redirect count of 0 and the original URI as its only location, not an error.
C11_ManualFirstResponseTerminal ==
    (pc = "done" /\ req.redirection = "Manual" /\ received >= 1) =>
        /\ Len(sent) = 1
        /\ response.status \in RedirectionCodes =>
              outcome = NewResponse(response, 0, <<req.url>>)

\* the Location value of the response is missing or does not parse
LocationUnusable ==
    \/ response.location.kind = "missing"
    \/ ~ParseLocation(request.url, response.location).ok

\* C12 (as claimed): under Follow, a redirection response without a Location
\* header, or with a Location value that does not parse, ends the dispatch
\* with MalformedLocation and is never returned as a response (taken where
\* neither the hop limit nor the body test decides: fewer than 20 redirects
\* followed, empty body).
C12_MalformedLocationFails ==
    (/\ pc = "done"
     /\ req.redirection = "Follow"
     /\ received = Len(sent)
     /\ redirections < 20
     /\ request.body = << >>
     /\ response.status \in RedirectionCodes
     /\ LocationUnusable)
    => outcome = Failure("MalformedLocation")

\* C13 (as claimed): a response whose status is not one of 301, 302, 303, 307,
\* 308 (300 and 304 included, with or without a Location header) is returned
\* as the dispatch's response under every redirect policy; it is not followed
\* and gives none of the redirect errors.
C13_OnlyRedirectionCodesRedirect ==
    /\ (/\ pc = "done"
        /\ received = Len(sent)
        /\ response.status \notin RedirectionCodes)
       => outcome = NewResponse(response, redirections, locations)
    /\ (pc = "sending" /\ Len(sent) >= 2) => response.status \in RedirectionCodes

\* C17: when the transport answers every exchange the dispatch ends; it never
\* sends more than 21 requests; it ends with exactly one outcome, a response
\* or an error, and once it has one neither the outcome nor the requests sent
\* change.
C17_OneTerminalOutcome ==
    /\ <>(pc = "done")
    /\ [](Len(sent) <= 21)
    /\ [](pc = "done" <=> outcome.kind \in {"response", "error"})
    /\ [][outcome # NoOutcome => (outcome' = outcome /\ sent' = sent)]_vars

C17_Witness ==
    /\ pc = "done"
    /\ Len(sent) = 21
    /\ received = 21
    /\ outcome.kind = "response"
    /\ outcome.status = 200

NonHostHeaders(headers) == {h \in headers : h[1] # "host"}

\* a redirect is followed while the request's body is empty
FollowedWithEmptyBody ==
    /\ pc = "received"
    /\ pc' = "sending"
    /\ request.body = << >>

\* C18: on a followed redirect with an empty body, when (the status is 301 or
\* 302 and the method is POST) or (the status is 303 and the method is neither
\* GET nor HEAD), the hop request has method GET and the headers of the
\* request before it without the four content headers; in every other case it
\* has the method of the request before it and the same headers. The Host
\* header is left out of the comparison.
C18_RewriteExactlyWhenDowngrading ==
    [][FollowedWithEmptyBody =>
          LET old == Last(sent)
              new == Last(sent')
              status == response.status
          IN  IF \/ (status \in {301, 302} /\ old.method = "POST")
                 \/ (status = 303 /\ old.method \notin {"GET", "HEAD"})
              THEN /\ new.method = "GET"
                   /\ NonHostHeaders(new.headers) =
                         {h \in NonHostHeaders(old.headers) : h[1] \notin ContentHeaders}
              ELSE /\ new.method = old.method
                   /\ NonHostHeaders(new.headers) = NonHostHeaders(old.headers)]_vars

C18_Witness ==
    /\ pc = "sending"
    /\ Len(sent) = 3
    /\ req.body = << >>
    /\ sent[1].method = "PUT"
    /\ HasContentHeader(sent[1].headers)
    /\ sent[2].method = "PUT"
    /\ HasContentHeader(sent[2].headers)
    /\ response.status = 303
    /\ sent[3].method = "GET"
    /\ ~HasContentHeader(sent[3].headers)

HostHeaders(headers) == {h \in headers : h[1] = "host"}

\* C19: every request sent after a redirect has exactly one Host header, whose
\* value is the host of that request's own URI; when it is sent, that URI is
\* the last entry of locations and its host is the host of the Location value
\* just resolved.
C19_HostFromHopTarget ==
    /\ \A i \in 2..Len(sent) :
          HostHeaders(sent[i].headers) = {<<"host", sent[i].uri.authority>>}
    /\ (pc = "sending" /\ Len(sent) >= 2) =>
          /\ inflight.uri = UriFromStr(UrlAsStr(Last(locations)))
          /\ HostHeaders(inflight.headers) = {<<"host", response.location.url.host>>}

C19_Witness ==
    /\ pc = "sending"
    /\ Len(sent) = 3
    /\ sent[2].uri.authority # sent[1].uri.authority
    /\ sent[3].uri.authority # sent[2].uri.authority
    /\ HostHeaders(sent[3].headers) = {<<"host", sent[3].uri.authority>>}

\* C20: at most one request is in flight; a request after the first is sent
\* only when every request before it has been answered; and the entries of
\* locations are the URIs of the requests sent, in the order they were sent.
C20_HopsSequentialInOrder ==
    /\ Len(sent) <= received + 1
    /\ inflight # NoRequest => (inflight = Last(sent) /\ Len(sent) = received + 1)
    /\ received >= 1 => Len(locations) = Len(sent)
    /\ \A i \in 1..Len(locations) :
          UriFromStr(UrlAsStr(locations[i])) = sent[i].uri

C20_Witness ==
    /\ pc = "received"
    /\ received = 3
    /\ Len(sent) = 3
    /\ Len(locations) = 3
    /\ locations[2] # locations[3]
    /\ sent[2].uri # sent[3].uri

\* a request is in flight and the step delivers no response: the transport failed
TransportFails ==
    /\ pc = "sending"
    /\ received' = received

\* C21: when the transport fails on a request, the first or a later one, the
\* dispatch ends in that step with the transport's error: the request is not
\* sent again, no other request is sent, and the outcome, which is not a
\* response, never changes afterwards.
C21_TransportErrorEndsDispatch ==
    /\ [][TransportFails =>
             /\ pc' = "done"
             /\ outcome' = Failure("TransportError")
             /\ sent' = sent
             /\ inflight' = NoRequest]_vars
    /\ [][outcome = Failure("TransportError") =>
             (outcome' = outcome /\ sent' = sent /\ pc' = pc)]_vars
    /\ [](outcome = Failure("TransportError") =>
             (pc = "done" /\ Len(sent) = received + 1))

C21_Witness ==
    /\ pc = "done"
    /\ outcome = Failure("TransportError")
    /\ Len(sent) = 3
    /\ received = 2
    /\ Len(locations) = 3

\* a redirect with a relative Location arrived where the loop follows redirects
RelativeRedirect ==
    /\ pc = "received"
    /\ req.redirection = "Follow"
    /\ redirections < 20
    /\ request.body = << >>
    /\ response.status \in RedirectionCodes
    /\ response.location.kind = "relative"

\* C22 (as claimed): on a followed redirect a relative Location is accepted and
\* resolved against the URI of the request that was just answered (the
\* previous target), on the first hop and on later ones: the next request goes
\* to that target's host with the Location's path.
C22_RelativeLocationResolved ==
    [][RelativeRedirect =>
          /\ pc' = "sending"
          /\ Len(sent') = Len(sent) + 1
          /\ Last(sent').uri =
                UriFromStr(UrlAsStr([host |-> Last(sent).uri.authority,
                                     path |-> response.location.path]))]_vars

(***************************************************************************)
(* Claims about the abort signals (checked under SpecSignal and SpecTimer). *)
(***************************************************************************)
\* C1 (as claimed): after any sequence of abort calls on one controller the
\* broadcast cell holds the reason of the first call; later calls leave the
\* cell unchanged.
C1_FirstReasonWins ==
    aborts # << >> => chan["ctl"].value = Some(aborts[1])

\* a future of the timeout signal that was dropped while the cell was empty
DroppedWhileEmpty(w) ==
    /\ futures[w] # Absent
    /\ futures[w].inner.kind = "Timeout"
    /\ futures[w].state = "dropped"
    /\ futures[w].emptyAtDrop

\* C8: once a wait future of the timeout signal has been dropped while the
\* cell was empty, the termination flag is set and the cell is empty in every
\* later state, whether or not the macrotask has been taken from the queue.
C8_DroppedTimerNeverFires ==
    (\E w \in Waiters : DroppedWhileEmpty(w)) =>
        /\ terminate
        /\ chan["tmr"].value = None
        /\ task.state # "ran"

C8_Witness ==
    /\ \E w \in Waiters : DroppedWhileEmpty(w)
    /\ task.state = "skipped"
    /\ terminate
    /\ chan["tmr"].value = None

\* C9 (as claimed): every non-empty reason read on a handle of the controller,
\* under any interleaving of abort calls and reads, is the reason of the
\* first abort call.
C9_SameReasonObserved ==
    observed \subseteq (IF aborts = << >> THEN {} ELSE {aborts[1]})

\* the reason AbortSignal.abort was given, or the default AbortError
StaticReason ==
    IF staticArg.arg = None THEN AbortError ELSE staticArg.arg.val

\* C10: from its creation on, the signal returned by AbortSignal.abort(reason)
\* is aborted, its reason is that reason, and every poll of a wait future on
\* it, the first included, is Ready with that reason and never Pending.
C10_StaticAbortSettled ==
    staticArg.kind = "called" =>
        /\ signals["s"] # Absent
        /\ GetAborted(signals["s"])
        /\ GetReason(signals["s"]) = Some(StaticReason)
        /\ \A w \in Waiters :
              (futures[w] # Absent /\ futures[w].of = "s" /\ futures[w].last # NotPolled)
                  => futures[w].last = Ready(StaticReason)

C10_Witness ==
    /\ staticArg.kind = "called"
    /\ staticArg.arg = Some(UserReason(1))
    /\ \E w \in Waiters :
          /\ futures[w] # Absent
          /\ futures[w].of = "s"
          /\ futures[w].last = Ready(UserReason(1))

\* C14: the default signal (Signal::None) is never settled: its reason is
\* empty and it is not aborted in every reachable state, and every poll of a
\* wait future on it is Pending, whatever the controller, the static abort
\* signal and the timeout signal have done.
C14_InertNeverSettles ==
    /\ signals["d"] = SignalNone
    /\ GetReason(signals["d"]) = None
    /\ ~GetAborted(signals["d"])
    /\ \A w \in Waiters :
          (futures[w] # Absent /\ futures[w].of = "d") =>
              /\ futures[w].inner = SignalNone
              /\ futures[w].last \in {NotPolled, Pending}

C14_Witness ==
    /\ chan["ctl"].value # None
    /\ chan["tmr"].value # None
    /\ staticArg.kind = "called"
    /\ \E w \in Waiters :
          /\ futures[w] # Absent
          /\ futures[w].of = "d"
          /\ futures[w].state = "live"
          /\ futures[w].last = Pending

\* a wait future of the timeout signal that has not been dropped
LiveTimerWaiter(w) ==
    /\ futures[w] # Absent
    /\ futures[w].inner.kind = "Timeout"
    /\ futures[w].state = "live"

\* the event loop takes the timer's macrotask: the duration has elapsed
DurationElapses ==
    /\ task.state = "queued"
    /\ task'.state # "queued"

\* C23 (as claimed): with several wait futures on one timeout signal, the
\* termination flag is set only when every one of them has been dropped; and
\* when the duration elapses while one of them is live, the callback stores
\* the timeout reason in the cell, also when another was dropped before.
C23_FlagOnlyWhenAllWaitersDropped ==
    /\ [][(~terminate /\ terminate') =>
             \A w \in Waiters : ~LiveTimerWaiter(w)']_vars
    /\ [][(DurationElapses /\ \E w \in Waiters : LiveTimerWaiter(w)) =>
             chan'["tmr"].value = Some(TimeoutError(task.time))]_vars

\* a wait future on a handle of the controller
ControllerWaiter(w) ==
    /\ futures[w] # Absent
    /\ futures[w].of \in Handles

\* C24: once abort has been called on the controller, every wait future on one
\* of its handles that is polled fairly and not dropped is eventually Ready
\* with a reason, whether the handle and the future were made before the abort
\* or after it, and whether the abort came before the first poll or after a
\* poll that returned Pending.
C24_AbortWakesEveryWaiter ==
    \A w \in Waiters :
        (ControllerWaiter(w) /\ aborts # << >>) ~>
            /\ ControllerWaiter(w)
            /\ \/ futures[w].state = "dropped"
               \/ /\ futures[w].last.kind = "Ready"
                  /\ \E i \in 1..Len(aborts) : futures[w].last.val = aborts[i]

C24_Witness ==
    /\ aborts # << >>
    /\ ControllerWaiter("w1")
    /\ futures["w1"].state = "live"
    /\ futures["w1"].last = Pending
    /\ ControllerWaiter("w2")
    /\ futures["w2"].state = "live"
    /\ futures["w2"].last = NotPolled
    /\ futures["w2"].inner.seen = chan["ctl"].version
    /\ futures["w2"].inner.seen > 0

(***************************************************************************)
(* Claims about the Request class (checked under SpecRequest).             *)
(***************************************************************************)
\* the last call was `new Request(url, init)` with init.mode "no-cors", a
\* cache mode that mode allows and a method the constructor accepts
NoCorsConstructed ==
    /\ lastCall.op = "constructor"
    /\ lastCall.info.kind = "String"
    /\ UrlUsername(lastCall.info.url) = ""
    /\ lastCall.init.val.mode = Some("NoCors")
    /\ lastCall.init.val.cache = Some("Default")
    /\ lastCall.init.val.method \notin {Some("TRACE"), Some("CONNECT")}

\* the method of that request: the init's, upper-cased, or GET
NoCorsMethod ==
    IF lastCall.init.val.method = None THEN "GET"
    ELSE MakeAsciiUppercase(lastCall.init.val.method.val)

\* C15 (as claimed): constructing a request whose mode is NoCors succeeds
\* when its method is GET, HEAD or POST and fails with a type error for any
\* other method.
C15_NoCorsMethodRule ==
    NoCorsConstructed =>
        IF NoCorsMethod \in {"GET", "HEAD", "POST"}
        THEN /\ lastCall.result.ok
             /\ lastCall.result.request.mode = "NoCors"
             /\ lastCall.result.request.request.method = NoCorsMethod
        ELSE lastCall.result = TypeError("Invalid request method.")

\* C16 (as claimed): a clone has the method, URI, headers, mode, credentials,
\* cache, redirect, integrity, keepalive and signal of its source, a copy of
\* its body that is marked unused even when the source's body was used, and
\* as its only location, and its url, the source's last location.
C16_CloneIsFreshCopy ==
    lastCall.op = "clone" =>
        LET source == lastCall.source
            clone == lastCall.result
        IN  /\ clone.request.method = source.request.method
            /\ clone.request.uri = source.request.uri
            /\ clone.request.headers = source.request.headers
            /\ \A f \in {"mode", "credentials", "cache", "redirect", "integrity",
                          "keepalive", "signal"} : clone[f] = source[f]
            /\ clone.body = source.body
            /\ ~clone.body_used
            /\ clone.locations = <<Last(source.locations)>>
            /\ clone.url = Last(source.locations)

=============================================================================
